---- MODULE Spec2Model ----
(***************************************************************************)
(* f1tv-dl: the DownloadQueue scheduler (lib/download-queue, held in       *)
(* src/unnamed/part_002 lines 402-841) and, in the later parts of the      *)
(* module, the TokenManager (src/lib/token-manager.js) and the building of *)
(* the ffmpeg command in DownloadQueue.downloadVideo.                      *)
(*                                                                         *)
(* JavaScript runs one callback at a time.  Every action below is one run  *)
(* of the event loop: a public method call, a timer firing, or the         *)
(* settling of an awaited collaborator promise, followed up to the next    *)
(* await on a timer or collaborator.  The only places where such a run is  *)
(* cut in two are the points where the queue hands control to its          *)
(* listeners (emit of taskCompleted / taskFailed / queueCompleted) and the *)
(* return of handleTaskError after a re-queue: the state there is what a   *)
(* listener or a continuation sees before processTask's finally block      *)
(* runs.  While the queue is at such a point nothing else is enabled       *)
(* (Quiescent).                                                            *)
(***************************************************************************)
EXTENDS Integers, Sequences, FiniteSets, TLC

(* ---- bounds of the model ---- *)
MaxTasks == 3           \* accepted addDownload calls
MaxLoops == 2           \* processQueue invocations alive at the same time

Tasks == 1..MaxTasks

(* ---- program constants ---- *)
HardLimit == 3                  \* Math.min(..., 3)
DefaultMaxConcurrent == 1       \* options.maxConcurrent || 1
DefaultRetryAttempts == 3       \* options.retryAttempts || 3
retryDelay == 5000              \* options.retryDelay || 5000
rateLimitBackoff == 60000       \* options.rateLimitBackoff || 60000
TooManyRequests == 429          \* error.response.status === 429

(* ---- inputs ---- *)
\* options.maxConcurrent as requested by the caller; 0 stands for absent/0
RequestedMaxConcurrent == {-1, 0, 2}
\* options.retryAttempts as requested by the caller
RequestedRetryAttempts == {1, 2}

Urls == {"https://f1tv.formula1.com/detail/1000003967/race",
         "https://example.com/video/1"}

\* the errors the collaborators (resolver, plan building, muxer) reject with:
\* one HTTP 429, one retryable class and one class the design calls fatal
\* (UnsupportedContent and AuthExhausted reach handleTaskError the same way
\* as TrackNotFound: as an Error without a response)
Errors == {"RateLimited", "MuxerFailure", "TrackNotFound"}
\* the classes the error taxonomy of the design calls fatal for the job
FatalErrors == {"TrackNotFound", "UnsupportedContent", "AuthExhausted"}

\* error.response.status of the rejection (0: the error has no response)
ResponseStatus(e) == IF e = "RateLimited" THEN TooManyRequests ELSE 0

\* f1tv-validator.isF1tvUrl: the URL has the shape of a service URL
isF1tvUrl(u) == u = "https://f1tv.formula1.com/detail/1000003967/race"

EventNames == {"taskAdded", "taskStarted", "taskProgress", "taskCompleted",
               "taskFailed"}

VARIABLES
    maxConcurrent,      \* this.maxConcurrent
    retryAttempts,      \* this.retryAttempts
    queue,              \* this.queue: pending jobs, head first
    active,             \* this.active
    completed,          \* this.completed
    failed,             \* this.failed
    isRunning,          \* this.isRunning
    isPaused,           \* this.isPaused
    totalQueued,        \* this.stats.totalQueued
    statsCompleted,     \* this.stats.completed
    statsFailed,        \* this.stats.failed
    status,             \* task.status
    attempts,           \* task.attempts
    error,              \* the error the job's handleTaskError is handling
    pc,                 \* where the job's processTask invocation stands
    sleeps,             \* the sleep() calls of the job's handleTaskError so far
    emitted,            \* per job, how often each lifecycle event was emitted
    loops,              \* processQueue invocations suspended in a sleep
    result,             \* outcome of the latest addDownload call
    queueEvent          \* the queue event its listeners are being called with

\* the TokenManager (src/lib/token-manager.js) and the files it works on
VARIABLES
    cacheFile,          \* .token-cache.json: the record saved, or NoFile
    manualFile,         \* entitlement_token of .f1tv-cookies.json, or "absent"
    tokenRetryDelay,    \* this.retryDelay, a fraction of milliseconds
    now,                \* Date.now(), in minutes
    call,               \* the getValidToken invocation in progress or just over
    calls,              \* getValidToken invocations so far
    invalidCached       \* history: the tokens that were read from the cache,
                        \* failed validateToken and were not saved since

\* downloadVideo (src/unnamed/part_002 lines 656-782)
VARIABLES
    dl                  \* the downloadVideo invocation followed by the model

\* the cool-down of processTask's finally block (lines 596-599)
VARIABLES
    cooldowns           \* the sleep(delayBetweenDownloads) calls not yet over

queueVars == <<maxConcurrent, retryAttempts, queue, active, completed, failed,
               isRunning, isPaused, totalQueued, statsCompleted, statsFailed,
               status, attempts, error, pc, sleeps, emitted, loops, result,
               queueEvent>>

tokenVars == <<cacheFile, manualFile, tokenRetryDelay, now, call, calls,
               invalidCached>>

planVars == <<dl>>

timerVars == <<cooldowns>>

vars == <<queueVars, tokenVars, planVars, timerVars>>

(* ---- helpers ---- *)
Range(s) == {s[i] : i \in 1..Len(s)}

Min(a, b) == IF a < b THEN a ELSE b

\* JavaScript a || b on numbers
OrElse(a, b) == IF a = 0 THEN b ELSE a

RECURSIVE Pow2(_)
Pow2(k) == IF k <= 0 THEN 1 ELSE 2 * Pow2(k - 1)

\* Array.findIndex + splice(index, 1): drop the first occurrence
RECURSIVE RemoveFirst(_, _)
RemoveFirst(s, t) ==
    IF s = <<>> THEN <<>>
    ELSE IF Head(s) = t THEN Tail(s)
    ELSE <<Head(s)>> \o RemoveFirst(Tail(s), t)

\* the queue object as a record
St == [maxConcurrent |-> maxConcurrent, retryAttempts |-> retryAttempts,
       queue |-> queue, active |-> active, completed |-> completed,
       failed |-> failed, isRunning |-> isRunning, isPaused |-> isPaused,
       totalQueued |-> totalQueued, statsCompleted |-> statsCompleted,
       statsFailed |-> statsFailed, status |-> status,
       attempts |-> attempts, error |-> error, pc |-> pc,
       sleeps |-> sleeps, emitted |-> emitted, loops |-> loops,
       result |-> result, queueEvent |-> queueEvent]

\* the queue becomes s.  The queue does not use the TokenManager, the steps
\* of downloadVideo are followed apart from the scheduler, and the cool-down
\* sleeps, which nothing waits for, are counted only where a property is
\* about them (SpecCooldown).
QueueBecomes(s) ==
    /\ maxConcurrent' = s.maxConcurrent
    /\ retryAttempts' = s.retryAttempts
    /\ queue' = s.queue
    /\ active' = s.active
    /\ completed' = s.completed
    /\ failed' = s.failed
    /\ isRunning' = s.isRunning
    /\ isPaused' = s.isPaused
    /\ totalQueued' = s.totalQueued
    /\ statsCompleted' = s.statsCompleted
    /\ statsFailed' = s.statsFailed
    /\ status' = s.status
    /\ attempts' = s.attempts
    /\ error' = s.error
    /\ pc' = s.pc
    /\ sleeps' = s.sleeps
    /\ emitted' = s.emitted
    /\ loops' = s.loops
    /\ result' = s.result
    /\ queueEvent' = s.queueEvent

Becomes(s) == QueueBecomes(s) /\ UNCHANGED <<tokenVars, planVars, timerVars>>

\* new TokenManager(): lines 11-16
TokenManagerConstructor ==
    [maxRetries |-> 3, retryDelay |-> [num |-> 2000, den |-> 1]]

\* fs.existsSync(this.tokenCacheFile) is false
NoFile == [exists |-> FALSE]

\* a getValidToken invocation that has not begun
NoCall ==
    [pc |-> "idle", creds |-> FALSE, attempt |-> 0, tried |-> <<>>,
     waits |-> <<>>, result |-> "none"]

\* a TokenManager nobody has called, without cache or manual file
TokenManagerUnused ==
    /\ cacheFile = NoFile
    /\ manualFile = "absent"
    /\ tokenRetryDelay = TokenManagerConstructor.retryDelay
    /\ now = 0
    /\ call = NoCall
    /\ calls = 0
    /\ invalidCached = {}

\* no downloadVideo invocation is followed
NoDownload == [pc |-> "idle"]

QueueIs(s) ==
    /\ maxConcurrent = s.maxConcurrent
    /\ retryAttempts = s.retryAttempts
    /\ queue = s.queue
    /\ active = s.active
    /\ completed = s.completed
    /\ failed = s.failed
    /\ isRunning = s.isRunning
    /\ isPaused = s.isPaused
    /\ totalQueued = s.totalQueued
    /\ statsCompleted = s.statsCompleted
    /\ statsFailed = s.statsFailed
    /\ status = s.status
    /\ attempts = s.attempts
    /\ error = s.error
    /\ pc = s.pc
    /\ sleeps = s.sleeps
    /\ emitted = s.emitted
    /\ loops = s.loops
    /\ result = s.result
    /\ queueEvent = s.queueEvent

StartsAs(s) ==
    QueueIs(s) /\ TokenManagerUnused /\ dl = NoDownload /\ cooldowns = 0

(* ---- constructor ---- *)
\* options.maxConcurrent || 1 without the Math.min
ClampMaxConcurrentWithoutMin(requested) ==
    OrElse(requested, DefaultMaxConcurrent)

ClampMaxConcurrent(requested) ==
    Min(OrElse(requested, DefaultMaxConcurrent), HardLimit)

Constructor(options) ==
    [maxConcurrent |-> ClampMaxConcurrent(options.maxConcurrent),
     retryAttempts |-> OrElse(options.retryAttempts, DefaultRetryAttempts),
     queue |-> <<>>, active |-> <<>>, completed |-> <<>>, failed |-> <<>>,
     isRunning |-> FALSE, isPaused |-> FALSE,
     totalQueued |-> 0, statsCompleted |-> 0, statsFailed |-> 0,
     status |-> [t \in Tasks |-> "none"],
     attempts |-> [t \in Tasks |-> 0],
     error |-> [t \in Tasks |-> "null"],
     pc |-> [t \in Tasks |-> "none"],
     sleeps |-> [t \in Tasks |-> <<>>],
     emitted |-> [t \in Tasks |-> [e \in EventNames |-> 0]],
     loops |-> 0, result |-> "none", queueEvent |-> "none"]

Emit(s, ev, t) == [s EXCEPT !.emitted[t][ev] = @ + 1]

(* ---- processTask, up to its first await ---- *)
ProcessTaskBegin(s, t) ==
    Emit([s EXCEPT !.status[t] = "downloading",
                   !.attempts[t] = @ + 1,
                   !.pc[t] = "running"],
         "taskStarted", t)

(* ---- finishQueue ---- *)
\* lines 786 and 807-812: the payload of queueCompleted is read from stats at
\* the emit, so the state at the emit is the summary the listeners get
FinishQueue(s) ==
    [s EXCEPT !.isRunning = FALSE, !.queueEvent = "queueCompleted"]

\* the listeners of queueCompleted returned: finishQueue and with it the
\* processQueue invocation are over
FinishQueueEnd(s) == [s EXCEPT !.queueEvent = "none"]

(* ---- processQueue: one run from the top of the while loop until the    *)
(*      loop sleeps or ends ---- *)
AwaitSleep(s) == [s EXCEPT !.loops = @ + 1]

CanAdmit(s) == Len(s.active) < s.maxConcurrent /\ Len(s.queue) > 0

\* processQueue with `while (true)` in place of `while (this.isRunning)`
ProcessQueueIgnoringStop(s) ==
    IF s.isPaused THEN AwaitSleep(s)
    ELSE IF CanAdmit(s)
         THEN LET task == Head(s.queue)
                  s1 == [s EXCEPT !.queue = Tail(@),
                                  !.active = Append(@, task)]
              IN AwaitSleep(ProcessTaskBegin(s1, task))
    ELSE IF Len(s.active) = 0 /\ Len(s.queue) = 0 THEN FinishQueue(s)
    ELSE AwaitSleep(s)

\* processQueue without the `break` of lines 542-544
ProcessQueueWithoutBreak(s) ==
    IF ~s.isRunning THEN FinishQueue(s)
    ELSE IF s.isPaused THEN AwaitSleep(s)
    ELSE IF CanAdmit(s)
         THEN LET task == Head(s.queue)
                  s1 == [s EXCEPT !.queue = Tail(@),
                                  !.active = Append(@, task)]
              IN AwaitSleep(ProcessTaskBegin(s1, task))
    ELSE AwaitSleep(s)

RECURSIVE ProcessQueue(_)
ProcessQueue(s) ==
    IF ~s.isRunning THEN FinishQueue(s)
    ELSE IF s.isPaused THEN AwaitSleep(s)
    ELSE IF CanAdmit(s)
         THEN LET task == Head(s.queue)
                  s1 == [s EXCEPT !.queue = Tail(@),
                                  !.active = Append(@, task)]
                  s2 == ProcessTaskBegin(s1, task)
              IN IF Len(s2.queue) > 0 /\ s2.maxConcurrent > 1
                 THEN AwaitSleep(s2)
                 ELSE ProcessQueue(s2)
    ELSE IF Len(s.active) = 0 /\ Len(s.queue) = 0 THEN FinishQueue(s)
    ELSE AwaitSleep(s)

(* ---- start / stop / pause / resume / clearHistory ---- *)
Start(s) ==
    IF s.isRunning THEN s
    ELSE ProcessQueue([s EXCEPT !.isRunning = TRUE, !.isPaused = FALSE])

Stop(s) == [s EXCEPT !.isRunning = FALSE]

Pause(s) == [s EXCEPT !.isPaused = TRUE]

Resume(s) == ProcessQueue([s EXCEPT !.isPaused = FALSE])

ClearHistory(s) == [s EXCEPT !.completed = <<>>, !.failed = <<>>]

(* ---- addDownload ---- *)
NewTask(s) == s.totalQueued + 1

\* addDownload with the URL check moved behind the enqueueing
AddDownloadValidatingLate(s, url) ==
    LET task == NewTask(s)
        s1 == [s EXCEPT !.queue = Append(@, task),
                        !.totalQueued = @ + 1]
    IN IF ~isF1tvUrl(url) THEN [s1 EXCEPT !.result = "InvalidURL"]
       ELSE LET s2 == Emit([s1 EXCEPT !.status[task] = "queued",
                                      !.pc[task] = "queued",
                                      !.result = "accepted"],
                           "taskAdded", task)
            IN IF ~s2.isRunning THEN Start(s2) ELSE s2

\* addDownload with unshift in place of push
AddDownloadAtHead(s, url) ==
    IF ~isF1tvUrl(url) THEN [s EXCEPT !.result = "InvalidURL"]
    ELSE LET task == NewTask(s)
             s1 == [s EXCEPT !.status[task] = "queued",
                             !.pc[task] = "queued",
                             !.queue = <<task>> \o @,
                             !.totalQueued = @ + 1,
                             !.result = "accepted"]
             s2 == Emit(s1, "taskAdded", task)
         IN IF ~s2.isRunning THEN Start(s2) ELSE s2

\* addDownload entering the scheduling loop whether or not it is running
AddDownloadAlwaysStarting(s, url) ==
    IF ~isF1tvUrl(url) THEN [s EXCEPT !.result = "InvalidURL"]
    ELSE LET task == NewTask(s)
             s1 == [s EXCEPT !.status[task] = "queued",
                             !.pc[task] = "queued",
                             !.queue = Append(@, task),
                             !.totalQueued = @ + 1,
                             !.result = "accepted"]
             s2 == Emit(s1, "taskAdded", task)
         IN ProcessQueue([s2 EXCEPT !.isRunning = TRUE, !.isPaused = FALSE])

AddDownload(s, url) ==
    IF ~isF1tvUrl(url) THEN [s EXCEPT !.result = "InvalidURL"]
    ELSE LET task == NewTask(s)
             s1 == [s EXCEPT !.status[task] = "queued",
                             !.pc[task] = "queued",
                             !.queue = Append(@, task),
                             !.totalQueued = @ + 1,
                             !.result = "accepted"]
             s2 == Emit(s1, "taskAdded", task)
         IN IF ~s2.isRunning THEN Start(s2) ELSE s2

(* ---- handleTaskError ---- *)
IsRateLimit(e) == ResponseStatus(e) = TooManyRequests

\* the exponent taken as attempts in place of attempts - 1
RetryDelayForOffByOne(n) == retryDelay * Pow2(n)

RetryDelayFor(n) == retryDelay * Pow2(n - 1)

Sleep(s, t, ms, at) == [s EXCEPT !.sleeps[t] = Append(@, ms), !.pc[t] = at]

\* push in place of unshift
RequeueAtTail(s, t) == [s EXCEPT !.queue = Append(@, t), !.pc[t] = "requeued"]

Requeue(s, t) == [s EXCEPT !.queue = <<t>> \o @, !.pc[t] = "requeued"]

\* a failure that also puts the job back into pending
MarkFailedAndRequeued(s, t) ==
    Emit([s EXCEPT !.status[t] = "failed",
                   !.failed = Append(@, t),
                   !.statsFailed = @ + 1,
                   !.queue = <<t>> \o @,
                   !.pc[t] = "emitFailed"],
         "taskFailed", t)

\* a failure that also takes the scheduler down
MarkFailedStoppingQueue(s, t) ==
    Emit([s EXCEPT !.status[t] = "failed",
                   !.failed = Append(@, t),
                   !.statsFailed = @ + 1,
                   !.pc[t] = "emitFailed",
                   !.isRunning = FALSE],
         "taskFailed", t)

MarkFailed(s, t) ==
    Emit([s EXCEPT !.status[t] = "failed",
                   !.failed = Append(@, t),
                   !.statsFailed = @ + 1,
                   !.pc[t] = "emitFailed"],
         "taskFailed", t)

\* `<=` in place of `<` in the test for attempts left
RetryOrFailOffByOne(s, t) ==
    IF s.attempts[t] <= s.retryAttempts
    THEN Sleep(s, t, RetryDelayFor(s.attempts[t]), "backoffRetry")
    ELSE MarkFailed(s, t)

\* lines 620-637: "retry logic for other errors", then "all retries exhausted"
RetryOrFail(s, t) ==
    IF s.attempts[t] < s.retryAttempts
    THEN Sleep(s, t, RetryDelayFor(s.attempts[t]), "backoffRetry")
    ELSE MarkFailed(s, t)

\* lines 605-610 and the entry into 620
HandleTaskError(s, t, e) ==
    LET s1 == [s EXCEPT !.error[t] = e, !.sleeps[t] = <<>>]
    IN IF IsRateLimit(e)
       THEN Sleep(s1, t, rateLimitBackoff, "backoff429")
       ELSE RetryOrFail(s1, t)

\* the rate-limit branch without its `return`
AfterRateLimitSleepNoReturn(s, t) ==
    IF s.attempts[t] < s.retryAttempts
    THEN RetryOrFail(Requeue(s, t), t)
    ELSE RetryOrFail(s, t)

\* the rate-limit branch without its test for attempts left
AfterRateLimitSleepAlwaysRequeued(s, t) == Requeue(s, t)

\* lines 612-618: after the rate-limit sleep
AfterRateLimitSleep(s, t) ==
    IF s.attempts[t] < s.retryAttempts
    THEN Requeue(s, t)
    ELSE RetryOrFail(s, t)

\* lines 627-628: after the retry sleep
AfterRetrySleep(s, t) == Requeue(s, t)

(* ---- processTask: success and the finally block ---- *)
\* unshift in place of push on the completed log
MarkCompletedAtHead(s, t) ==
    Emit([s EXCEPT !.status[t] = "completed",
                   !.completed = <<t>> \o @,
                   !.statsCompleted = @ + 1,
                   !.pc[t] = "emitCompleted"],
         "taskCompleted", t)

MarkCompleted(s, t) ==
    Emit([s EXCEPT !.status[t] = "completed",
                   !.completed = Append(@, t),
                   !.statsCompleted = @ + 1,
                   !.pc[t] = "emitCompleted"],
         "taskCompleted", t)

AtHandOver == {"requeued", "emitCompleted", "emitFailed"}

\* lines 588-600.  The cool-down sleep that may end the block changes no
\* state and nothing awaits the promise of processTask (line 533), so the
\* invocation is over for the queue once the job has left active.
Finally(s, t) ==
    [s EXCEPT !.active = RemoveFirst(@, t),
              !.pc[t] = IF @ = "requeued" THEN "queued" ELSE "done",
              !.error[t] = "null",
              !.sleeps[t] = <<>>]

(* ---- the state machine ---- *)
Quiescent ==
    /\ \A t \in Tasks : pc[t] \notin AtHandOver
    /\ queueEvent = "none"

Init ==
    \E mc \in RequestedMaxConcurrent, ra \in RequestedRetryAttempts :
        StartsAs(Constructor([maxConcurrent |-> mc, retryAttempts |-> ra]))

DoAddDownload ==
    /\ Quiescent
    /\ \E url \in Urls :
        /\ isF1tvUrl(url) => totalQueued < MaxTasks
        /\ (isF1tvUrl(url) /\ ~isRunning) => loops < MaxLoops
        /\ Becomes(AddDownload(St, url))

DoStart ==
    /\ Quiescent
    /\ ~isRunning
    /\ loops < MaxLoops
    /\ Becomes(Start(St))

DoStop ==
    /\ Quiescent
    /\ isRunning
    /\ Becomes(Stop(St))

DoPause ==
    /\ Quiescent
    /\ ~isPaused
    /\ Becomes(Pause(St))

DoResume ==
    /\ Quiescent
    /\ loops < MaxLoops
    /\ Becomes(Resume(St))

DoClearHistory ==
    /\ Quiescent
    /\ Len(completed) + Len(failed) > 0
    /\ Becomes(ClearHistory(St))

\* a sleeping processQueue invocation wakes up
LoopWake ==
    /\ Quiescent
    /\ loops > 0
    /\ Becomes(ProcessQueue([St EXCEPT !.loops = @ - 1]))

\* the awaited collaborators of a running job all resolved
TaskSucceeds(t) ==
    /\ Quiescent
    /\ pc[t] = "running"
    /\ Becomes(MarkCompleted(St, t))

\* one of the awaited collaborators of a running job rejected with e
TaskFails(t, e) ==
    /\ Quiescent
    /\ pc[t] = "running"
    /\ Becomes(HandleTaskError(St, t, e))

RateLimitSleepEnds(t) ==
    /\ Quiescent
    /\ pc[t] = "backoff429"
    /\ Becomes(AfterRateLimitSleep(St, t))

RetrySleepEnds(t) ==
    /\ Quiescent
    /\ pc[t] = "backoffRetry"
    /\ Becomes(AfterRetrySleep(St, t))

TaskFinally(t) ==
    /\ pc[t] \in AtHandOver
    /\ Becomes(Finally(St, t))

QueueCompletedDelivered ==
    /\ queueEvent = "queueCompleted"
    /\ Becomes(FinishQueueEnd(St))

Next ==
    \/ DoAddDownload
    \/ DoStart
    \/ DoStop
    \/ DoPause
    \/ DoResume
    \/ DoClearHistory
    \/ LoopWake
    \/ \E t \in Tasks : TaskSucceeds(t)
    \/ \E t \in Tasks, e \in Errors : TaskFails(t, e)
    \/ \E t \in Tasks : RateLimitSleepEnds(t)
    \/ \E t \in Tasks : RetrySleepEnds(t)
    \/ \E t \in Tasks : TaskFinally(t)
    \/ QueueCompletedDelivered

Spec == Init /\ [][Next]_vars

(* ---- one job in the middle of its life ---- *)
\* The queue while its first job runs its n-th attempt: the state reached by
\* one addDownload followed by n-1 failed attempts and re-launches.  Used to
\* exercise handleTaskError at every attempt number up to MaxRetryOption.
MaxRetryOption == 4     \* largest options.retryAttempts drawn

MidLife(options, n) ==
    [Constructor(options) EXCEPT
        !.active = <<1>>,
        !.isRunning = TRUE,
        !.totalQueued = 1,
        !.status[1] = "downloading",
        !.attempts[1] = n,
        !.pc[1] = "running",
        !.emitted[1] = [e \in EventNames |->
                            IF e = "taskAdded" THEN 1
                            ELSE IF e = "taskStarted" THEN n ELSE 0],
        !.loops = 1,
        !.result = "accepted"]

InitRetry ==
    \E mc \in {0, 2}, ra \in 1..MaxRetryOption :
        \E n \in 1..ra :
            StartsAs(MidLife([maxConcurrent |-> mc, retryAttempts |-> ra], n))

NextRetry ==
    \/ LoopWake
    \/ \E t \in Tasks : TaskSucceeds(t)
    \/ \E t \in Tasks, e \in Errors : TaskFails(t, e)
    \/ \E t \in Tasks : RateLimitSleepEnds(t)
    \/ \E t \in Tasks : RetrySleepEnds(t)
    \/ \E t \in Tasks : TaskFinally(t)
    \/ QueueCompletedDelivered

SpecRetry == InitRetry /\ [][NextRetry]_vars

(* ---- vocabulary of the properties ---- *)
Count(s, t) == Cardinality({i \in 1..Len(s) : s[i] = t})

Accepted == 1..totalQueued

\* the step moves job t from pending to active
Launched(t) == attempts'[t] = attempts[t] + 1

\* log b is log a with entries appended
IsPrefix(a, b) == Len(a) <= Len(b) /\ SubSeq(b, 1, Len(a)) = a

\* the step puts job t back into pending
RequeuedNow(t) == pc[t] \in {"backoff429", "backoffRetry"} /\ pc'[t] = "requeued"

Handled(t) == pc[t] \in {"requeued", "emitFailed"}

(* ---- C1 ---- *)
\* C1: in every reachable state the number of jobs in active is at most
\* maxConcurrent.
ActiveAtMostMaxConcurrent == Len(active) <= maxConcurrent

(* ---- C2 ---- *)
\* C2: every accepted job is in exactly one of pending, active, completed,
\* failed, in every reachable state, those seen by the listeners of
\* taskCompleted / taskFailed and the one right after a re-queue included.
InExactlyOneCollection ==
    \A t \in Accepted :
        Count(queue, t) + Count(active, t)
            + Count(completed, t) + Count(failed, t) = 1

(* ---- C3 ---- *)
\* C3: a job whose attempts reached retryAttempts and whose last attempt
\* failed goes to failed, with one taskFailed event over its whole life, and
\* from then on is neither put back into pending nor launched again.
ExhaustedFailsOnce ==
    /\ [](\A t \in Tasks :
            /\ emitted[t]["taskFailed"] <= 1
            /\ pc[t] = "requeued" => attempts[t] < retryAttempts
            /\ (Handled(t) /\ attempts[t] >= retryAttempts) =>
                    /\ pc[t] = "emitFailed"
                    /\ Count(failed, t) = 1
                    /\ emitted[t]["taskFailed"] = 1
            /\ status[t] = "failed" =>
                    /\ attempts[t] = retryAttempts
                    /\ emitted[t]["taskFailed"] = 1
                    /\ Count(queue, t) = 0
                    /\ Count(failed, t) <= 1)
    /\ [][\A t \in Tasks :
            status[t] = "failed" =>
                /\ status'[t] = "failed"
                /\ ~Launched(t)
                /\ Count(queue', t) = 0
                /\ Count(failed', t) <= Count(failed, t)]_vars

ExhaustedFailsOnceWitness ==
    \E t \in Tasks :
        /\ pc[t] = "done"
        /\ status[t] = "failed"
        /\ attempts[t] = 2
        /\ retryAttempts = 2
        /\ failed = <<t>>

(* ---- C4 ---- *)
\* C4: a job that failed with a fatal error class is never re-queued (and
\* never waits out a retry delay), even when attempts < retryAttempts.
FatalErrorNeverRetried ==
    \A t \in Tasks :
        error[t] \in FatalErrors => pc[t] \notin {"backoffRetry", "requeued"}

(* ---- C5 ---- *)
\* C5: an addDownload that throws InvalidURL leaves the queue as it was:
\* nothing pending, totalQueued, events and scheduler untouched.
InvalidUrlLeavesQueueUnchanged ==
    [][(result # "InvalidURL" /\ result' = "InvalidURL") =>
            UNCHANGED <<queue, active, completed, failed, isRunning, isPaused,
                        totalQueued, statsCompleted, statsFailed, status,
                        attempts, pc, emitted, loops>>]_vars

InvalidUrlWitness ==
    /\ result = "InvalidURL"
    /\ ~isRunning
    /\ loops = 0
    /\ Len(queue) = 1
    /\ totalQueued = 1

(* ---- C6 ---- *)
\* C6: a job that failed with attempts left, rate-limited or not, goes back
\* to the head of pending; launches take the head, so it is launched before
\* the jobs that were pending then and after the jobs re-queued later, and
\* retried jobs stand before the jobs not yet tried.
RetriedJobGoesToHead ==
    /\ [](\A i, j \in 1..Len(queue) :
            (i < j /\ attempts[queue[j]] > 0) => attempts[queue[i]] > 0)
    /\ [][\A t \in Tasks :
            /\ RequeuedNow(t) => queue' = <<t>> \o queue
            /\ (Launched(t) /\ queue # <<>>) =>
                    /\ t = Head(queue)
                    /\ Len(queue') >= Len(queue) - 1
                    /\ SubSeq(queue', 1, Len(queue) - 1) = Tail(queue)]_vars

RetriedJobGoesToHeadWitness ==
    /\ Len(queue) = 3
    /\ attempts[queue[1]] = 1
    /\ attempts[queue[2]] = 1
    /\ attempts[queue[3]] = 0
    /\ pc[queue[1]] = "requeued"
    /\ error[queue[1]] = "RateLimited"

(* ---- C7 ---- *)
\* C7: jobs that were never retried are launched in the order in which
\* addDownload accepted them (job ids count the accepted calls).
UntriedLaunchedInOrder ==
    [][\A t \in Tasks :
        (attempts[t] = 0 /\ Launched(t)) =>
            \A u \in 1..(t - 1) : attempts[u] >= 1]_vars

UntriedLaunchedInOrderWitness ==
    /\ Len(queue) = 1
    /\ queue[1] = 3
    /\ attempts[3] = 0
    /\ attempts[2] = 1
    /\ pc[2] = "running"
    /\ pc[1] = "done"

(* ---- C8 ---- *)
\* C8: after a failure that is not a rate limit, with attempts = n below
\* retryAttempts, the job is re-queued after exactly one sleep of
\* retryDelay * 2^(n-1).
RetryWaitIsExponential ==
    \A t \in Tasks :
        (pc[t] = "requeued" /\ ~IsRateLimit(error[t])) =>
            sleeps[t] = <<retryDelay * 2^(attempts[t] - 1)>>

RetryWaitWitness ==
    \E t \in Tasks :
        /\ pc[t] = "requeued"
        /\ error[t] = "MuxerFailure"
        /\ attempts[t] = 3
        /\ sleeps[t] = <<20000>>

NoAdmissionWhileStopped ==
    [][/\ (\E t \in Tasks : Launched(t)) => isRunning'
       /\ \A t \in Tasks :
            (Count(active, t) > 0 /\ Count(active', t) = 0) =>
                pc[t] \in AtHandOver]_vars

NoAdmissionWhileStoppedWitness ==
    /\ ~isRunning
    /\ loops = 0
    /\ Len(queue) = 1
    /\ Len(active) = 1
    /\ maxConcurrent = 2
    /\ attempts[queue[1]] = 0
    /\ pc[active[1]] = "running"

(* ---- C11 ---- *)
\* C11: from pause() until resume() no job moves from pending to active,
\* whatever else is called in between (a step that starts from a paused
\* queue and is not resume() launches nothing), and the jobs in active stay
\* there until their own attempt has ended.
PauseHoldsUntilResume ==
    [][isPaused =>
        /\ ~DoResume => \A t \in Tasks : ~Launched(t)
        /\ \A t \in Tasks :
            (Count(active, t) > 0 /\ Count(active', t) = 0) =>
                pc[t] \in AtHandOver]_vars

(* ---- C12 ---- *)
\* C12: queueCompleted is emitted only with pending and active both empty,
\* so that the completed and failed counts of its payload add up to its
\* total.
SummaryOnlyWhenDrained ==
    queueEvent = "queueCompleted" =>
        /\ Len(queue) = 0
        /\ Len(active) = 0
        /\ statsCompleted + statsFailed = totalQueued

(* ---- the queue with its timers and collaborators, under a caller that   *)
(*      leaves it neither paused nor stopped ---- *)
LiveTasks == 2          \* accepted addDownload calls in the liveness runs

\* one error that is a rate limit and one that is not
LiveErrors == {"RateLimited", "MuxerFailure"}

\* retryAttempts = 2: a job is retried once and fails on its second error
InitLive ==
    \E mc \in 1..HardLimit :
        StartsAs(Constructor([maxConcurrent |-> mc, retryAttempts |-> 2]))

\* the caller pauses a running queue, and pauses only while a later resume()
\* fits under MaxLoops; it resumes a paused queue and restarts a stopped one
\* that has jobs pending
AddDownloadLive ==
    /\ Quiescent
    /\ totalQueued < LiveTasks
    /\ ~isRunning => loops < MaxLoops
    /\ \E url \in Urls : isF1tvUrl(url) /\ Becomes(AddDownload(St, url))
PauseLive == isRunning /\ loops < MaxLoops /\ DoPause
ResumeLive == isPaused /\ DoResume
StartLive == queue # <<>> /\ DoStart

\* the attempt of job t ends, with success or with an error
AttemptEnds(t) == TaskSucceeds(t) \/ \E e \in LiveErrors : TaskFails(t, e)

NextLive ==
    \/ AddDownloadLive
    \/ PauseLive
    \/ ResumeLive
    \/ DoStop
    \/ StartLive
    \/ LoopWake
    \/ \E t \in Tasks : AttemptEnds(t)
    \/ \E t \in Tasks : RateLimitSleepEnds(t)
    \/ \E t \in Tasks : RetrySleepEnds(t)
    \/ \E t \in Tasks : TaskFinally(t)
    \/ QueueCompletedDelivered

\* what the event loop owes job t: its sleep ends or its collaborators settle
\* (at most one of the three is enabled, by pc[t])
TaskStep(t) ==
    AttemptEnds(t) \/ RateLimitSleepEnds(t) \/ RetrySleepEnds(t)

\* setTimeout callbacks fire, promises settle and emit returns, whatever the
\* caller does in between (strong fairness: a caller that keeps calling
\* stop() and start() does not keep a timer from firing); the collaborators
\* end every attempt; the caller leaves the queue neither paused nor stopped
Fairness ==
    /\ SF_vars(LoopWake)
    /\ \A t \in 1..LiveTasks : SF_vars(TaskStep(t))
    /\ \A t \in 1..LiveTasks : WF_vars(TaskFinally(t))
    /\ WF_vars(QueueCompletedDelivered)
    /\ SF_vars(ResumeLive)
    /\ SF_vars(StartLive)

SpecLive == InitLive /\ [][NextLive]_vars /\ Fairness

(* ---- C13 ---- *)
\* C13: with maxConcurrent in 1..3, a queue that is never left paused or
\* stopped and whose attempts all end brings every accepted job to completed
\* or failed, its scheduling loops all terminate and queueCompleted is
\* emitted.
EveryJobEndsAndQueueCompletes ==
    /\ \A t \in 1..LiveTasks :
        (status[t] = "queued") ~> (status[t] \in {"completed", "failed"})
    /\ (isRunning \/ loops > 0) ~> (~isRunning /\ loops = 0)
    /\ isRunning ~> (queueEvent = "queueCompleted")

EveryJobEndsWitness ==
    /\ maxConcurrent = 1
    /\ totalQueued = LiveTasks
    /\ \A t \in 1..LiveTasks : pc[t] = "done"
    /\ statsFailed = 1
    /\ attempts[1] = 2
    /\ queueEvent = "queueCompleted"
    /\ loops = 0

(* ---- C14 ---- *)
\* C14: an error in one job does not abort the queue.  The steps that handle
\* the error of job t (into a backoff sleep, back into pending, or into
\* failed) leave the scheduler's running flag and loops and every other job
\* as they were, and a job that is pending when another job has just been
\* re-queued or failed is launched later on.
ErrorDoesNotAbortQueue ==
    /\ [][\A t \in Tasks :
            (/\ pc[t] \in {"running", "backoff429", "backoffRetry"}
             /\ pc'[t] # pc[t]
             /\ pc'[t] \in {"backoff429", "backoffRetry", "requeued",
                            "emitFailed"}) =>
                /\ isRunning' = isRunning
                /\ loops' = loops
                /\ \A u \in Tasks \ {t} :
                    /\ status'[u] = status[u]
                    /\ pc'[u] = pc[u]
                    /\ Count(queue', u) = Count(queue, u)
                    /\ Count(failed', u) = Count(failed, u)]_vars
    /\ \A u \in 1..LiveTasks :
        (Count(queue, u) > 0 /\ \E t \in Tasks \ {u} : Handled(t))
            ~> (pc[u] = "running")

ErrorDoesNotAbortQueueWitness ==
    /\ maxConcurrent = 1
    /\ status[1] = "failed"
    /\ attempts[1] = 2
    /\ pc[1] = "done"
    /\ pc[2] = "running"
    /\ isRunning

(* ---- C15 ---- *)
\* C15: the state of a job matches the collection it is in: 'queued' in
\* pending (a re-queued job included), 'downloading' in active, 'completed'
\* in completed, 'failed' in failed.  Stated for the states between two runs
\* of the event loop, where no job is in two collections.
StatusMatchesCollection ==
    Quiescent => \A t \in Tasks :
        /\ Count(queue, t) > 0 => status[t] = "queued"
        /\ Count(active, t) > 0 => status[t] = "downloading"
        /\ Count(completed, t) > 0 => status[t] = "completed"
        /\ Count(failed, t) > 0 => status[t] = "failed"

(* ---- C16 ---- *)
\* C16: every job in active is being executed or about to be; a job that
\* waits out a retry or rate-limit backoff before its re-queue holds no
\* active slot.
ActiveMeansExecuting ==
    \A t \in Tasks :
        Count(active, t) > 0 => pc[t] \notin {"backoff429", "backoffRetry"}

(* ---- C17 ---- *)
\* C17: an addDownload with a valid URL (the step that increments
\* totalQueued) increments it by one and appends the new job at the tail of
\* pending.  On a running scheduler that is all it does: no loop is started
\* and nothing is launched.  On a scheduler that is not running it starts
\* one: the step ends running with one more processQueue invocation, which
\* may have launched the head of pending already.
AddDownloadAppendsAndStarts ==
    [][totalQueued' # totalQueued =>
        LET task == totalQueued + 1
        IN /\ totalQueued' = totalQueued + 1
           /\ emitted'[task]["taskAdded"] = 1
           /\ status[task] = "none"
           /\ isRunning =>
                /\ queue' = Append(queue, task)
                /\ UNCHANGED <<isRunning, isPaused, loops, active, attempts,
                               queueEvent>>
           /\ ~isRunning =>
                /\ isRunning'
                /\ loops' = loops + 1
                /\ \/ /\ queue' = Append(queue, task)
                      /\ UNCHANGED <<active, attempts>>
                   \/ /\ queue' = Tail(Append(queue, task))
                      /\ active' = Append(active, Head(Append(queue, task)))
                      /\ Launched(Head(Append(queue, task)))]_vars

AddDownloadOnRunningWitness ==
    /\ result = "accepted"
    /\ isRunning
    /\ loops = 1
    /\ totalQueued = 3
    /\ queue = <<2, 3>>
    /\ active = <<1>>
    /\ attempts[3] = 0
    /\ maxConcurrent = 1

(* ---- queues constructed with every requested maxConcurrent ---- *)
MaxRequested == 5       \* largest options.maxConcurrent drawn

\* retryAttempts is left out of the options (the default applies)
InitOptions ==
    \E mc \in -1..MaxRequested :
        StartsAs(Constructor([maxConcurrent |-> mc, retryAttempts |-> 0]))

NextOptions ==
    \/ AddDownloadLive
    \/ LoopWake
    \/ \E t \in Tasks : TaskSucceeds(t)
    \/ \E t \in Tasks, e \in Errors : TaskFails(t, e)
    \/ \E t \in Tasks : RateLimitSleepEnds(t)
    \/ \E t \in Tasks : RetrySleepEnds(t)
    \/ \E t \in Tasks : TaskFinally(t)
    \/ QueueCompletedDelivered

SpecOptions == InitOptions /\ [][NextOptions]_vars

(* ---- C18 ---- *)
\* C18: whatever options.maxConcurrent was requested, the maxConcurrent the
\* queue works with is at most 3.
MaxConcurrentAtMostHardLimit == maxConcurrent <= 3

MaxConcurrentWitness ==
    /\ maxConcurrent = 3
    /\ Len(active) = LiveTasks
    /\ \A i \in 1..Len(active) : pc[active[i]] = "running"

(* ---- C19 ---- *)
\* C19, as stated: over any sequence of public operations the completed and
\* failed logs are append-only; no entry is ever removed and neither log
\* shrinks.
LogsAreAppendOnly ==
    [][IsPrefix(completed, completed') /\ IsPrefix(failed, failed')]_vars

\* C19, amended: the completed and failed logs change only by a job being
\* appended to one of them, except in clearHistory(), which empties both;
\* the counters stats.completed and stats.failed never decrease.
LogsAppendOnlyExceptClearHistory ==
    [][/\ \/ /\ IsPrefix(completed, completed')
             /\ IsPrefix(failed, failed')
             /\ Len(completed') + Len(failed')
                    <= Len(completed) + Len(failed) + 1
          \/ /\ DoClearHistory
             /\ completed' = <<>>
             /\ failed' = <<>>
       /\ statsCompleted' >= statsCompleted
       /\ statsFailed' >= statsFailed]_vars

LogsClearedThenAppendedWitness ==
    /\ completed = <<2>>
    /\ failed = <<>>
    /\ statsCompleted = 2
    /\ status[1] = "completed"
    /\ pc[2] = "done"

(***************************************************************************)
(* The TokenManager (src/lib/token-manager.js).  getValidToken is an async *)
(* function: each action below is one of its runs between two awaits (the  *)
(* liveness check, the browser extraction, the login, the backoff timer).  *)
(* One invocation is followed at a time.  Times are in minutes.            *)
(***************************************************************************)
MaxCalls == 2           \* getValidToken invocations

maxRetries == TokenManagerConstructor.maxRetries

FiveMinutes == 5        \* 300000 ms
Day == 1440             \* 24 * 60 * 60 * 1000 ms

Strategies == <<"cache", "browser", "manual", "login">>

\* the source tags of saveTokenToCache's callers (lines 119, 136, 155)
Source(strategy) ==
    CASE strategy = "browser" -> "browser-auto-extract"
      [] strategy = "manual" -> "manual-cookie-file"
      [] strategy = "login" -> "automated-login"

(* ---- inputs ---- *)
\* what autoExtractF1TVCookies resolves to or does
BrowserOutcomes == {"null", "throws", "browserTok"}
\* what the login of getF1tvToken resolves to or does
LoginOutcomes == {"null", "throws", "loginTok"}
\* entitlement_token of the manual cookie file
ManualFiles == {"absent", "manualTok"}

\* exp of the token's JWT payload (0: none, or not a JWT)
JwtExp(token) ==
    CASE token = "browserTok" -> 0
      [] token = "manualTok" -> 600
      [] token = "loginTok" -> 60
      [] OTHER -> 0

\* extractTokenExpiry: decoded.exp || null, null when decoding throws
extractTokenExpiry(token) == JwtExp(token)

\* when the cache records of the initial state were written: just now, a
\* day ago, more than a day ago
CachedTimestamps == {0, 0 - Day, 0 - (Day + 1)}
\* their expires field: 0 (null: unknown), past, inside the buffer, at its
\* end
CachedExpiries == {0, 0 - 1, FiveMinutes - 1, FiveMinutes}

\* the cache records the first call may find: left by an earlier run, or by
\* another version or by hand (stamped: the JSON has a timestamp field;
\* in a record that has none, timestamp is only the time it was written)
CachedRecords ==
    {[exists |-> TRUE, token |-> "cachedTok", source |-> "automated-login",
      stamped |-> st, timestamp |-> ts, expires |-> ex] :
        st \in BOOLEAN, ts \in CachedTimestamps, ex \in CachedExpiries}

\* the instants at which the model looks at the clock
Instants == {0, 55, 56, Day, Day + 1}

(* ---- saveTokenToCache / loadTokenFromCache ---- *)
saveTokenToCache(token, source, t) ==
    [exists |-> TRUE, token |-> token, source |-> source, stamped |-> TRUE,
     timestamp |-> t, expires |-> extractTokenExpiry(token)]

\* loadTokenFromCache without the buffer in the expiry test
loadTokenFromCacheWithoutBuffer(file, t) ==
    IF ~file.exists THEN "null"
    ELSE IF file.expires # 0 /\ file.expires < t THEN "null"
    ELSE IF file.stamped /\ t - file.timestamp > Day THEN "null"
    ELSE file.token

\* "null" stands for JavaScript null.  Without a timestamp field the age is
\* now - undefined, NaN, and NaN > x is false.
loadTokenFromCache(file, t) ==
    IF ~file.exists THEN "null"
    ELSE IF file.expires # 0 /\ file.expires < t + FiveMinutes THEN "null"
    ELSE IF file.stamped /\ t - file.timestamp > Day THEN "null"
    ELSE file.token

\* loadManualCookie: cookies.entitlement_token || null
loadManualCookie(file) == IF file = "absent" THEN "null" ELSE file

\* getF1tvToken (src/unnamed/part_002 lines 29-39): the manual cookie when
\* there is one, the outcome of the automated login otherwise
getF1tvToken(file, login) == IF file # "absent" THEN file ELSE login

(* ---- getValidToken ---- *)
Current(c) == c.tried[Len(c.tried)]

\* the invocation turns to a strategy
Attempt(c, strategy) ==
    [c EXCEPT !.tried = Append(@, [strategy |-> strategy, token |-> "none",
                                   valid |-> FALSE])]

\* the strategy produced a token: await validateToken(token)
Validate(c, token) ==
    [c EXCEPT !.tried[Len(c.tried)].token = token, !.pc = "validate"]

\* line 173
Throw(c) == [c EXCEPT !.pc = "thrown", !.result = "AuthExhausted"]

\* return cachedToken / autoToken / manualToken / loginToken
Return(c) == [c EXCEPT !.pc = "returned", !.result = Current(c).token]

\* lines 147-150: one turn of the for loop, up to await getF1tvToken
LoginAttempt(c, n) ==
    [Attempt(c, "login") EXCEPT !.attempt = n, !.pc = "login"]

\* the loop test as attempt <= maxRetries + 1
NextLoginAttemptOneMore(c) ==
    IF c.attempt < maxRetries + 1 THEN LoginAttempt(c, c.attempt + 1)
    ELSE Throw(c)

\* attempt++ and the loop test, then line 173
NextLoginAttempt(c) ==
    IF c.attempt < maxRetries THEN LoginAttempt(c, c.attempt + 1)
    ELSE Throw(c)

\* lines 144-173, entered when strategy 3 is over
Strategy4(c) == IF c.creds THEN LoginAttempt(c, 1) ELSE Throw(c)

\* lines 130-142, entered when strategy 2 is over, up to the next await
Strategy3(c, file) ==
    LET c3 == Attempt(c, "manual")
        manualToken == loadManualCookie(file)
    IN IF manualToken # "null" THEN Validate(c3, manualToken)
       ELSE Strategy4(c3)

\* lines 112-115: up to await autoExtractF1TVCookies
Strategy2(c) == [Attempt(c, "browser") EXCEPT !.pc = "extract"]

\* lines 96-103 with the cached token returned as it is read
Strategy1TrustingCache(c, cache, t) ==
    LET c1 == Attempt(c, "cache")
        cachedToken == loadTokenFromCache(cache, t)
    IN IF cachedToken # "null"
       THEN Return([c1 EXCEPT !.tried[Len(c1.tried)].token = cachedToken])
       ELSE Strategy2(c1)

\* lines 96-103
Strategy1(c, cache, t) ==
    LET c1 == Attempt(c, "cache")
        cachedToken == loadTokenFromCache(cache, t)
    IN IF cachedToken # "null" THEN Validate(c1, cachedToken)
       ELSE Strategy2(c1)

\* an invalid cached token followed by the manual file, the browsers left out
AfterInvalidSkippingBrowser(c, file) ==
    CASE Current(c).strategy = "cache" -> Strategy3(c, file)
      [] Current(c).strategy = "browser" -> Strategy3(c, file)
      [] Current(c).strategy = "manual" -> Strategy4(c)
      [] Current(c).strategy = "login" -> NextLoginAttempt(c)

\* what follows a liveness check that failed (file: the manual cookie file)
AfterInvalid(c, file) ==
    CASE Current(c).strategy = "cache" -> Strategy2(c)
      [] Current(c).strategy = "browser" -> Strategy3(c, file)
      [] Current(c).strategy = "manual" -> Strategy4(c)
      [] Current(c).strategy = "login" -> NextLoginAttempt(c)

\* this.retryDelay *= 1.5
TimesOneAndAHalf(d) == [num |-> d.num * 3, den |-> d.den * 2]

(* ---- the state machine of the TokenManager ---- *)
InitToken ==
    /\ QueueIs(Constructor([maxConcurrent |-> 0, retryAttempts |-> 0]))
    /\ cacheFile \in {NoFile} \cup CachedRecords
    /\ manualFile \in ManualFiles
    /\ tokenRetryDelay = TokenManagerConstructor.retryDelay
    /\ now = 0
    /\ call = NoCall
    /\ calls = 0
    /\ invalidCached = {}
    /\ dl = NoDownload
    /\ cooldowns = 0

\* getValidToken(user, pass) is called; creds: user && pass
GetValidToken(creds) ==
    /\ call.pc \in {"idle", "returned", "thrown"}
    /\ calls < MaxCalls
    /\ calls' = calls + 1
    /\ call' = Strategy1([NoCall EXCEPT !.creds = creds], cacheFile, now)
    /\ UNCHANGED <<cacheFile, manualFile, tokenRetryDelay, now, invalidCached,
                   queueVars, planVars, timerVars>>

\* validateToken resolves: ok iff the request answered with status 200
ValidateTokenEnds(ok) ==
    /\ call.pc = "validate"
    /\ LET c == [call EXCEPT !.tried[Len(call.tried)].valid = ok]
           fromCache == Current(c).strategy = "cache"
       IN IF ok
          THEN /\ call' = Return(c)
               /\ cacheFile' =
                    IF fromCache THEN cacheFile
                    ELSE saveTokenToCache(Current(c).token,
                                          Source(Current(c).strategy), now)
               /\ invalidCached' = IF fromCache THEN invalidCached ELSE {}
          ELSE /\ call' = AfterInvalid(c, manualFile)
               /\ invalidCached' =
                    IF fromCache THEN invalidCached \cup {Current(c).token}
                    ELSE invalidCached
               /\ UNCHANGED cacheFile
    /\ UNCHANGED <<manualFile, tokenRetryDelay, now, calls, queueVars,
                   planVars, timerVars>>

\* autoExtractF1TVCookies resolves or rejects
AutoExtractEnds(r) ==
    /\ call.pc = "extract"
    /\ call' = IF r \in {"null", "throws"} THEN Strategy3(call, manualFile)
               ELSE Validate(call, r)
    /\ UNCHANGED <<cacheFile, manualFile, tokenRetryDelay, now, calls,
                   invalidCached, queueVars, planVars, timerVars>>

\* getF1tvToken resolves or rejects
GetF1tvTokenEnds(login) ==
    /\ call.pc = "login"
    /\ LET loginToken == getF1tvToken(manualFile, login)
       IN call' =
            IF loginToken = "throws"
            THEN IF call.attempt < maxRetries
                 THEN [call EXCEPT !.pc = "wait",
                                   !.waits = Append(@, tokenRetryDelay)]
                 ELSE Throw(call)
            ELSE IF loginToken = "null" THEN NextLoginAttempt(call)
            ELSE Validate(call, loginToken)
    /\ UNCHANGED <<cacheFile, manualFile, tokenRetryDelay, now, calls,
                   invalidCached, queueVars, planVars, timerVars>>

\* the timer of line 166 fires
RetryWaitEnds ==
    /\ call.pc = "wait"
    /\ tokenRetryDelay' = TimesOneAndAHalf(tokenRetryDelay)
    /\ call' = LoginAttempt(call, call.attempt + 1)
    /\ UNCHANGED <<cacheFile, manualFile, now, calls, invalidCached,
                   queueVars, planVars, timerVars>>

\* clearCache()
ClearCache ==
    /\ cacheFile.exists
    /\ cacheFile' = NoFile
    /\ invalidCached' = {}
    /\ UNCHANGED <<manualFile, tokenRetryDelay, now, call, calls, queueVars,
                   planVars, timerVars>>

\* the clock moves on to a later instant
TimePasses(t) ==
    /\ t > now
    /\ now' = t
    /\ UNCHANGED <<cacheFile, manualFile, tokenRetryDelay, call, calls,
                   invalidCached, queueVars, planVars, timerVars>>

NextToken ==
    \/ \E creds \in BOOLEAN : GetValidToken(creds)
    \/ \E ok \in BOOLEAN : ValidateTokenEnds(ok)
    \/ \E r \in BrowserOutcomes : AutoExtractEnds(r)
    \/ \E login \in LoginOutcomes : GetF1tvTokenEnds(login)
    \/ RetryWaitEnds
    \/ ClearCache
    \/ \E t \in Instants : TimePasses(t)

SpecToken == InitToken /\ [][NextToken]_vars

Rank(strategy) == CHOOSE i \in 1..Len(Strategies) : Strategies[i] = strategy

(* ---- C20 ---- *)
\* C20: getValidToken turns to its strategies in the order cache, browser
\* extraction, manual file, automated login (the login possibly more than
\* once), none left out before the call is over; it turns to a strategy only
\* while no token has passed the liveness check, and the token it returns is
\* the one of the strategy it tried last, the first whose token passed.
StrategiesInFixedOrder ==
    LET tr == call.tried
    IN /\ \A i \in 1..Len(tr) :
            /\ i = 1 => tr[i].strategy = "cache"
            /\ i > 1 =>
                \/ Rank(tr[i].strategy) = Rank(tr[i - 1].strategy) + 1
                \/ tr[i].strategy = "login" /\ tr[i - 1].strategy = "login"
            /\ i < Len(tr) => ~tr[i].valid
            /\ tr[i].strategy = "login" => call.creds
       /\ call.pc = "returned" =>
            /\ Current(call).valid
            /\ call.result = Current(call).token
            /\ call.result \notin {"none", "null", "throws"}
       /\ call.pc = "thrown" =>
            /\ ~Current(call).valid
            /\ Current(call).strategy = IF call.creds THEN "login" ELSE "manual"

StrategiesInFixedOrderWitness ==
    /\ call.pc = "returned"
    /\ call.result = "loginTok"
    /\ Len(call.tried) = 4
    /\ call.tried[1] = [strategy |-> "cache", token |-> "none", valid |-> FALSE]
    /\ call.tried[2] =
            [strategy |-> "browser", token |-> "browserTok", valid |-> FALSE]
    /\ call.tried[3] = [strategy |-> "manual", token |-> "none", valid |-> FALSE]
    /\ cacheFile.exists
    /\ cacheFile.source = "automated-login"
    /\ cacheFile.token = "loginTok"

(* ---- C21 ---- *)
\* C21: a token getValidToken returns was handed to validateToken during
\* the same invocation and validateToken answered true for it; this holds
\* for a token read from the cache as for any other.
ReturnedTokenWasValidated ==
    call.pc = "returned" =>
        \E i \in 1..Len(call.tried) :
            /\ call.tried[i].token = call.result
            /\ call.tried[i].valid

\* a token read from the cache is returned
ReturnedFromCacheWitness ==
    /\ call.pc = "returned"
    /\ call.result = "cachedTok"
    /\ call.tried = <<[strategy |-> "cache", token |-> "cachedTok",
                       valid |-> TRUE]>>

(* ---- C22 ---- *)
\* the source tag of the strategy a token comes from
Origin(token) ==
    CASE token = "browserTok" -> "browser-auto-extract"
      [] token = "manualTok" -> "manual-cookie-file"
      [] token = "loginTok" -> "automated-login"
      [] OTHER -> "unknown"

\* C22: whenever a record is written to the credential cache, its token is
\* the one the invocation returns, that token passed validateToken in the
\* same invocation, and the record's source names the strategy the token
\* really comes from; an invocation that ends in AuthExhausted writes
\* nothing.
CacheWritesValidatedAndTagged ==
    [][(cacheFile' # cacheFile /\ cacheFile'.exists) =>
            /\ call'.pc = "returned"
            /\ call'.result = cacheFile'.token
            /\ Current(call').token = cacheFile'.token
            /\ Current(call').valid
            /\ cacheFile'.source = Origin(cacheFile'.token)]_vars

(* ---- C23 ---- *)
\* the invocation that begins in this step reads nothing from the cache and
\* goes on to the browser extraction
CallSkipsCache ==
    /\ call'.pc = "extract"
    /\ Len(call'.tried) = 2
    /\ call'.tried[1] = [strategy |-> "cache", token |-> "none",
                         valid |-> FALSE]
    /\ call'.tried[2].strategy = "browser"

\* C23 as stated: when getValidToken is called and the cache record has an
\* expiry that is past or no more than 5 minutes away, loadTokenFromCache
\* yields nothing and the call goes on to strategy 2.
NearExpiryNeverFromCache ==
    [][(/\ calls' = calls + 1
        /\ cacheFile.exists
        /\ cacheFile.expires # 0
        /\ cacheFile.expires <= now + FiveMinutes) => CallSkipsCache]_vars

\* C23 amended: when getValidToken is called and the cache record has an
\* expiry that is past or less than 5 minutes away, loadTokenFromCache
\* yields nothing and the call goes on to strategy 2.
InsideBufferNeverFromCache ==
    [][(/\ calls' = calls + 1
        /\ cacheFile.exists
        /\ cacheFile.expires # 0
        /\ cacheFile.expires < now + FiveMinutes) => CallSkipsCache]_vars

\* the second call finds the login token of the first, saved with one hour
\* to live, 4 minutes before its expiry and turns to the browsers
InsideBufferWitness ==
    /\ calls = 2
    /\ now = 56
    /\ cacheFile.exists
    /\ cacheFile.token = "loginTok"
    /\ cacheFile.expires = 60
    /\ cacheFile.timestamp = 0
    /\ call.pc = "extract"
    /\ call.tried[1] = [strategy |-> "cache", token |-> "none",
                        valid |-> FALSE]

(* ---- C24 ---- *)
\* C24: when getValidToken is called and the cache record was written more
\* than 24 hours ago, the cache strategy yields nothing, whether or not the
\* record has a timestamp field and whether or not its expiry is known.
OlderThanADayNeverFromCache ==
    [][(/\ calls' = calls + 1
        /\ cacheFile.exists
        /\ now - cacheFile.timestamp > Day) => CallSkipsCache]_vars

(* ---- C25 ---- *)
\* how often the invocation turned to the strategy
Turns(c, strategy) ==
    Cardinality({i \in 1..Len(c.tried) : c.tried[i].strategy = strategy})

SomeTokenPassed(c) == \E i \in 1..Len(c.tried) : c.tried[i].valid

\* C25: getValidToken ends in AuthExhausted only after the cache, the
\* browser extraction and the manual file were each tried exactly once and
\* the login was tried not at all when user or password is missing and
\* between 1 and 3 times otherwise, none of these turns giving a token that
\* passed validateToken; as soon as a token has passed, the invocation
\* returns it, so an invocation that is over failed exactly when no token
\* passed.
FailsExactlyWhenNothingValidated ==
    /\ call.pc = "thrown" =>
        /\ call.result = "AuthExhausted"
        /\ ~SomeTokenPassed(call)
        /\ Turns(call, "cache") = 1
        /\ Turns(call, "browser") = 1
        /\ Turns(call, "manual") = 1
        /\ Turns(call, "login") <= 3
        /\ Turns(call, "login") = 0 <=> ~call.creds
    /\ SomeTokenPassed(call) =>
        /\ call.pc = "returned"
        /\ call.result \notin {"AuthExhausted", "none", "null", "throws"}
    /\ call.pc = "returned" => SomeTokenPassed(call)

\* an invocation with credentials fails after three logins: one threw, one
\* gave nothing, one gave a token that did not pass
AuthExhaustedWitness ==
    /\ call.pc = "thrown"
    /\ call.creds
    /\ Turns(call, "login") = 3
    /\ Len(call.waits) = 1
    /\ \E i \in 4..6 : call.tried[i].token = "loginTok"
    /\ call.tried[6].token = "none"

(* ---- C26 ---- *)
\* C26: in strategy 4 a login attempt other than the first begins only when
\* the backoff timer fires, whatever made the attempt before it fail, and
\* the k-th wait of an invocation lasts this.retryDelay as the invocation
\* found it times 1.5^(k-1).
BackoffBetweenLoginAttempts ==
    [][(/\ call'.pc = "login"
        /\ call'.attempt > 1
        /\ call'.attempt # call.attempt) =>
            /\ call.pc = "wait"
            /\ Len(call.waits) = call.attempt
            /\ \A k \in 2..Len(call.waits) :
                    call.waits[k] = TimesOneAndAHalf(call.waits[k - 1])]_vars

(* ---- C27 ---- *)
\* C27: a token that was read from the cache and failed validateToken is
\* not read from the cache and returned by a later getValidToken invocation
\* (unless it was acquired, validated and saved again in between).
FailedCachedTokenNotReused ==
    (/\ call.pc = "returned"
     /\ Current(call).strategy = "cache") => call.result \notin invalidCached

(***************************************************************************)
(* downloadVideo (src/unnamed/part_002 lines 656-782): building the ffmpeg *)
(* command of a job and running it.  Each action is one run of the async   *)
(* executor between two awaits or ffmpeg events.  An ffmpeg option or      *)
(* stream selector is the sequence of its ':'-separated parts, so          *)
(* '0:p:5:a' is <<"0", "p", "5", "a">>; a URL is the sequence of the       *)
(* pieces that matter to indexOf.                                          *)
(***************************************************************************)

(* ---- inputs ---- *)
\* task.format: "mp4" | "ts"
Formats == {"mp4", "ts"}
\* task.internationalAudio: absent, or one of the languages of the option
InternationalAudios == {"undefined", "eng", "deu"}
\* downloadConfig.itsoffset || '-00:00:04.750'
DefaultItsoffset == "-00:00:04.750"
\* the tokenized stream URL: an HLS playlist or a DASH manifest
StreamUrls == {<<"https://f1tv.formula1.com/live/index.", "m3u8">>,
               <<"https://f1tv.formula1.com/live/manifest.", "mpd">>}
\* the URL of the INTERNATIONAL channel
IntlUrl == <<"https://f1tv.formula1.com/intl/index.", "m3u8">>
\* what getProgramStreamId resolves to for the primary stream ...
ProgramStreamIds == [videoId : {"5", "6"}, audioId : {"0", "1"}]
\* ... and for the INTERNATIONAL stream at 480x270
IntlStreamIds == [videoId : {"2"}, audioId : {"0", "3"}]
\* the errors a step of downloadVideo rejects with
DownloadErrors == {"TrackNotFound", "TransientTransport", "MuxerFailure"}

(* ---- lines 659-732 ---- *)
\* f1tvUrl.indexOf('m3u8') == -1
useDash(f1tvUrl) == "m3u8" \notin Range(f1tvUrl)

\* task.internationalAudio !== undefined
includeInternationalAudio(task) == task.internationalAudio # "undefined"

\* util.format('0:v:m:id:%i' | '0:p:%i:v', programStream)
videoSelectString(dash, programStream) ==
    IF dash THEN <<"0", "v", "m", "id", programStream>>
    ELSE <<"0", "p", programStream, "v">>

\* '0:a' | `0:p:${programStream}:a`
audioSelectString(dash, programStream) ==
    IF dash THEN <<"0", "a">> ELSE <<"0", "p", programStream, "a">>

\* util.format('1:v:m:id:%i' | '1:p:%i:v', intlDetails.videoId)
intlVideoSelectString(dash, intlVideoId) ==
    IF dash THEN <<"1", "v", "m", "id", intlVideoId>>
    ELSE <<"1", "p", intlVideoId, "v">>

\* util.format('1:a:m:id:%i' | `1:p:${programStream}:a:%i`, intlDetails.audioId)
intlAudioSelectString(dash, programStream, intlAudioId) ==
    IF dash THEN <<"1", "a", "m", "id", intlAudioId>>
    ELSE <<"1", "p", programStream, "a", intlAudioId>>

\* lines 675-679
inputOptions ==
    <<<<"-probesize">>, <<"24M">>, <<"-analyzeduration">>, <<"6M">>,
      <<"-rtbufsize">>, <<"2147M">>>>

\* line 690
intlInputOptions(task) ==
    inputOptions \o <<<<"-itsoffset">>, <<task.itsoffset>>>>

\* line 703
intlLangId(task) ==
    IF task.internationalAudio = "eng" THEN "Sky" ELSE task.internationalAudio

\* lines 672 and 697-701; d.intl.resolved: the branch of line 684 was taken
audioStreamMapping(d) ==
    LET dash == useDash(d.f1tvUrl)
    IN IF d.intl.resolved
       THEN <<<<"-map">>, intlVideoSelectString(dash, d.intl.videoId),
              <<"-map">>, audioSelectString(dash, d.programStream),
              <<"-map">>,
              intlAudioSelectString(dash, d.programStream, d.intl.audioId)>>
       ELSE <<<<"-map">>, audioSelectString(dash, d.programStream)>>

\* lines 673 and 705-711
audioCodecParameters(d) ==
    IF d.intl.resolved
    THEN <<<<"-c", "a">>, <<"copy">>,
           <<"-metadata", "s", "a", "0">>, <<"language=", "eng">>,
           <<"-disposition", "a", "0">>, <<"default">>,
           <<"-metadata", "s", "a", "1">>, <<"language=", intlLangId(d.task)>>,
           <<"-disposition", "a", "1">>, <<"0">>>>
    ELSE <<<<"-c", "a">>, <<"copy">>>>

\* lines 716-732
options(d) ==
    <<<<"-map">>, videoSelectString(useDash(d.f1tvUrl), d.programStream)>>
    \o audioStreamMapping(d)
    \o <<<<"-c", "v">>, <<"copy">>>>
    \o audioCodecParameters(d)
    \o (IF d.task.format = "mp4"
        THEN <<<<"-bsf", "a">>, <<"aac_adtstoasc">>,
               <<"-movflags">>, <<"faststart">>, <<"-y">>>>
        ELSE <<<<"-y">>>>)

\* lines 734-744: the inputs of the ffmpeg command
inputs(d) ==
    IF d.intl.resolved
    THEN <<[url |-> d.f1tvUrl, inputOptions |-> inputOptions],
           [url |-> d.intl.url, inputOptions |-> intlInputOptions(d.task)]>>
    ELSE <<[url |-> d.f1tvUrl, inputOptions |-> inputOptions]>>

\* the INTERNATIONAL stream has not been resolved
NoIntl == [resolved |-> FALSE, url |-> <<>>, videoId |-> "", audioId |-> ""]

\* lines 746-776: ffmpegCommand...save(outFileSpec)
Save(d) ==
    [d EXCEPT !.pc = "muxing", !.inputs = inputs(d), !.options = options(d)]

\* catch (error) { reject(error) } and ffmpeg's 'error' event
Reject(d, e) == [d EXCEPT !.pc = "rejected", !.error = e]

(* ---- the state machine of downloadVideo ---- *)
InitPlan ==
    /\ QueueIs(Constructor([maxConcurrent |-> 0, retryAttempts |-> 0]))
    /\ TokenManagerUnused
    /\ dl = NoDownload
    /\ cooldowns = 0

\* downloadVideo(task, f1tvUrl, content, outFileSpec), up to the first
\* await getProgramStreamId; race: isRace(content)
DownloadVideo(task, f1tvUrl, race) ==
    /\ dl.pc \in {"idle", "resolved", "rejected"}
    /\ dl' = [pc |-> "probe", task |-> task, f1tvUrl |-> f1tvUrl,
              race |-> race, programStream |-> "", audioStreamId |-> "",
              intl |-> NoIntl, inputs |-> <<>>, options |-> <<>>,
              error |-> "none"]
    /\ UNCHANGED <<queueVars, tokenVars, timerVars>>

\* getProgramStreamId(f1tvUrl, ...) resolves: lines 665-684, then either
\* await getTokenizedUrl (line 687) or lines 714-776
ProgramStreamIdResolves(plDetails) ==
    /\ dl.pc = "probe"
    /\ LET d == [dl EXCEPT !.programStream = plDetails.videoId,
                           !.audioStreamId = plDetails.audioId]
       IN dl' = IF includeInternationalAudio(d.task) /\ d.race
                THEN [d EXCEPT !.pc = "tokenize"]
                ELSE Save(d)
    /\ UNCHANGED <<queueVars, tokenVars, timerVars>>

\* getTokenizedUrl(task.url, content, 'INTERNATIONAL') resolves: line 688,
\* up to await getProgramStreamId(intlUrl, ...)
TokenizedUrlResolves ==
    /\ dl.pc = "tokenize"
    /\ dl' = [dl EXCEPT !.pc = "probeIntl", !.intl.url = IntlUrl]
    /\ UNCHANGED <<queueVars, tokenVars, timerVars>>

\* getProgramStreamId(intlUrl, ...) resolves: lines 690-776
IntlStreamIdResolves(intlDetails) ==
    /\ dl.pc = "probeIntl"
    /\ dl' = Save([dl EXCEPT !.intl.resolved = TRUE,
                             !.intl.videoId = intlDetails.videoId,
                             !.intl.audioId = intlDetails.audioId])
    /\ UNCHANGED <<queueVars, tokenVars, timerVars>>

\* an awaited collaborator rejects: line 779
CollaboratorRejects(e) ==
    /\ \/ dl.pc \in {"probe", "probeIntl"} /\ e = "TrackNotFound"
       \/ dl.pc \in {"probe", "tokenize", "probeIntl"}
          /\ e = "TransientTransport"
    /\ dl' = Reject(dl, e)
    /\ UNCHANGED <<queueVars, tokenVars, timerVars>>

\* ffmpeg's 'end' event: resolve()
MuxerEnds ==
    /\ dl.pc = "muxing"
    /\ dl' = [dl EXCEPT !.pc = "resolved"]
    /\ UNCHANGED <<queueVars, tokenVars, timerVars>>

\* ffmpeg's 'error' event: reject(error)
MuxerFails ==
    /\ dl.pc = "muxing"
    /\ dl' = Reject(dl, "MuxerFailure")
    /\ UNCHANGED <<queueVars, tokenVars, timerVars>>

NextPlan ==
    \/ \E fmt \in Formats, ia \in InternationalAudios, u \in StreamUrls,
          race \in BOOLEAN :
            DownloadVideo([format |-> fmt, internationalAudio |-> ia,
                           itsoffset |-> DefaultItsoffset], u, race)
    \/ \E plDetails \in ProgramStreamIds : ProgramStreamIdResolves(plDetails)
    \/ TokenizedUrlResolves
    \/ \E intlDetails \in IntlStreamIds : IntlStreamIdResolves(intlDetails)
    \/ \E e \in DownloadErrors : CollaboratorRejects(e)
    \/ MuxerEnds
    \/ MuxerFails

SpecPlan == InitPlan /\ [][NextPlan]_vars

(* ---- reading a transport plan ---- *)
\* the ffmpeg command was built and handed to the muxer
PlanBuilt ==
    \/ dl.pc \in {"muxing", "resolved"}
    \/ dl.pc = "rejected" /\ dl.options # <<>>

\* the selectors of the plan's -map directives, in order
RECURSIVE MapsOf(_)
MapsOf(opts) ==
    IF Len(opts) < 2 THEN <<>>
    ELSE IF Head(opts) = <<"-map">>
         THEN <<opts[2]>> \o MapsOf(Tail(Tail(opts)))
         ELSE MapsOf(Tail(opts))

\* what a selector selects: the feed (input 0 primary, 1 secondary) and
\* the stream type
Feed(sel) == IF sel[1] = "0" THEN "primary" ELSE "secondary"

StreamType(sel) ==
    IF sel[2] = "p" THEN (IF sel[4] = "v" THEN "video" ELSE "audio")
    ELSE IF sel[2] = "v" THEN "video" ELSE "audio"

Directive(sel) == <<Feed(sel), StreamType(sel)>>

Directives(opts) ==
    [i \in 1..Len(MapsOf(opts)) |-> Directive(MapsOf(opts)[i])]

RECURSIVE Select(_, _)
Select(s, kind) ==
    IF s = <<>> THEN <<>>
    ELSE IF Head(s)[2] = kind THEN <<Head(s)>> \o Select(Tail(s), kind)
    ELSE Select(Tail(s), kind)

\* the argument that follows the option in the plan, "none" without it
RECURSIVE ArgOf(_, _)
ArgOf(opts, opt) ==
    IF Len(opts) < 2 THEN <<"none">>
    ELSE IF Head(opts) = opt THEN opts[2]
    ELSE ArgOf(Tail(opts), opt)

(* ---- C28 ---- *)
\* C28: every plan built for a job that selects international audio has
\* exactly two audio map directives, the primary feed's first and the
\* secondary feed's second, and marks audio stream 0 as default and audio
\* stream 1 as not default.
SecondaryAudioPlanHasTwoAudioMaps ==
    (PlanBuilt /\ includeInternationalAudio(dl.task)) =>
        /\ Select(Directives(dl.options), "audio") =
                <<<<"primary", "audio">>, <<"secondary", "audio">>>>
        /\ ArgOf(dl.options, <<"-disposition", "a", "0">>) = <<"default">>
        /\ ArgOf(dl.options, <<"-disposition", "a", "1">>) = <<"0">>

(* ---- C29 ---- *)
\* C29: for a job that selects international audio on content that is not
\* a race, downloadVideo builds no plan and never starts ffmpeg: once the
\* primary stream is resolved the invocation is rejected with
\* UnsupportedContent.
IneligibleSecondaryAudioIsRejected ==
    (dl.pc # "idle" /\ includeInternationalAudio(dl.task) /\ ~dl.race) =>
        /\ ~PlanBuilt
        /\ dl.options = <<>>
        /\ dl.inputs = <<>>
        /\ dl.pc \in {"probe", "rejected"}
        /\ dl.error \in {"none", "TrackNotFound", "TransientTransport",
                         "UnsupportedContent"}

(* ---- C30 ---- *)
\* C30: the map directives of every plan are, in this order, primary video
\* and primary audio, followed for a plan with international audio by the
\* secondary video (in the transport kinds that need it) and the secondary
\* audio; for mp4 and ts, HLS and DASH alike.
MapDirectivesInFixedOrder ==
    PlanBuilt =>
        \/ Directives(dl.options) =
                <<<<"primary", "video">>, <<"primary", "audio">>>>
        \/ Directives(dl.options) =
                <<<<"primary", "video">>, <<"primary", "audio">>,
                  <<"secondary", "audio">>>>
        \/ Directives(dl.options) =
                <<<<"primary", "video">>, <<"primary", "audio">>,
                  <<"secondary", "video">>, <<"secondary", "audio">>>>

(***************************************************************************)
(* The scheduler together with the taskProgress events that downloadVideo  *)
(* emits while ffmpeg runs.                                                *)
(***************************************************************************)
MaxProgress == 1        \* taskProgress events followed, all jobs together

\* the taskProgress events emitted so far
RECURSIVE ProgressEvents(_)
ProgressEvents(n) ==
    IF n = 0 THEN 0 ELSE emitted[n]["taskProgress"] + ProgressEvents(n - 1)

\* ffmpeg's 'progress' event of a running job (lines 754-767): task.progress
\* is overwritten, which nothing in the queue reads, and taskProgress is
\* emitted.  ffmpeg reports progress only between its start and its 'end'
\* or 'error' event.
TaskProgress(t) ==
    /\ Quiescent
    /\ pc[t] = "running"
    /\ ProgressEvents(MaxTasks) < MaxProgress
    /\ Becomes(Emit(St, "taskProgress", t))

InitProgress ==
    \E mc \in {0, 2} :
        StartsAs(Constructor([maxConcurrent |-> mc, retryAttempts |-> 2]))

NextProgress ==
    \/ DoAddDownload
    \/ DoStart
    \/ DoStop
    \/ DoPause
    \/ DoResume
    \/ DoClearHistory
    \/ LoopWake
    \/ \E t \in Tasks : TaskSucceeds(t)
    \/ \E t \in Tasks, e \in Errors : TaskFails(t, e)
    \/ \E t \in Tasks : TaskProgress(t)
    \/ \E t \in Tasks : RateLimitSleepEnds(t)
    \/ \E t \in Tasks : RetrySleepEnds(t)
    \/ \E t \in Tasks : TaskFinally(t)
    \/ QueueCompletedDelivered

SpecProgress == InitProgress /\ [][NextProgress]_vars

(* ---- C31 ---- *)
Terminal(ev) == ev["taskCompleted"] + ev["taskFailed"]

\* C31: for every accepted job taskAdded is emitted once, taskStarted once
\* per attempt and only after taskAdded, taskProgress only after a
\* taskStarted, and at most one of taskCompleted and taskFailed, once, after
\* a taskStarted; once the job's terminal event is out no further event is
\* emitted for it.  A job that was not accepted has no events.
LifecycleEventsInSequence ==
    /\ [](\A t \in Tasks :
            /\ t \notin Accepted => \A e \in EventNames : emitted[t][e] = 0
            /\ t \in Accepted =>
                /\ emitted[t]["taskAdded"] = 1
                /\ emitted[t]["taskStarted"] = attempts[t]
                /\ emitted[t]["taskProgress"] > 0 => attempts[t] > 0
                /\ Terminal(emitted[t]) <= 1
                /\ Terminal(emitted[t]) = 1 <=>
                        status[t] \in {"completed", "failed"}
                /\ Terminal(emitted[t]) = 1 => attempts[t] > 0)
    /\ [][\A t \in Tasks :
            Terminal(emitted[t]) = 1 => emitted'[t] = emitted[t]]_vars

\* a job was started twice, reported progress and failed
LifecycleWitness ==
    /\ emitted[1] = [e \in EventNames |->
                        CASE e = "taskAdded" -> 1
                          [] e = "taskStarted" -> 2
                          [] e = "taskProgress" -> 1
                          [] e = "taskCompleted" -> 0
                          [] e = "taskFailed" -> 1]
    /\ status[1] = "failed"
    /\ pc[1] = "done"

(* ---- C32 ---- *)
\* the processQueue invocations that have not returned: those suspended in
\* a sleep and the one whose finishQueue is calling its listeners
ActiveLoops == loops + (IF queueEvent = "none" THEN 0 ELSE 1)

\* C32: in every reachable state at most one processQueue invocation is in
\* progress, whatever sequence of addDownload, start, stop, pause and resume
\* led to it.
AtMostOneSchedulingLoop == ActiveLoops <= 1

(* ---- C33 ---- *)
\* the step puts job t into active: line 530, reached only through the
\* shift of line 529
Admitted(t) == Count(active', t) = Count(active, t) + 1

MapsFor(opts, feed, type) ==
    SelectSeq(MapsOf(opts), LAMBDA sel : Directive(sel) = <<feed, type>>)

\* the audio track ids getProgramStreamId can resolve for the primary stream
PrimaryAudioIds == {plDetails.audioId : plDetails \in ProgramStreamIds}

\* C34: the primary audio map directive of every plan depends on the audio
\* track id resolved for the requested language: had the resolution given
\* another track id, the directive would be another one, for HLS and DASH.
PrimaryAudioMapFollowsTrack ==
    PlanBuilt =>
        \A other \in PrimaryAudioIds \ {dl.audioStreamId} :
            MapsFor(options([dl EXCEPT !.audioStreamId = other]),
                    "primary", "audio")
                # MapsFor(dl.options, "primary", "audio")

(* ---- C35 ---- *)
\* the program or track id a selector addresses within its input:
\* i:p:<program>:v, i:p:<program>:a[:<track>], i:v:m:id:<track>, i:a:m:id:<track>
ProgramOf(sel) == IF sel[2] = "p" THEN sel[3] ELSE "none"

TrackOf(sel) == IF Len(sel) = 5 THEN sel[5] ELSE "none"

\* C35: in every plan with a secondary feed each map directive of that feed
\* addresses input 1, the program id resolved for the secondary stream (HLS)
\* and the track id resolved for it (DASH, and the audio track in HLS).
SecondaryMapsAddressSecondaryIds ==
    (PlanBuilt /\ dl.intl.resolved) =>
        /\ MapsFor(dl.options, "secondary", "audio") # <<>>
        /\ \A i \in 1..Len(MapsOf(dl.options)) :
            LET sel == MapsOf(dl.options)[i]
            IN Feed(sel) = "secondary" =>
                /\ sel[1] = "1"
                /\ ProgramOf(sel) \in {"none", dl.intl.videoId}
                /\ TrackOf(sel) \in
                        {"none",
                         IF StreamType(sel) = "video" THEN dl.intl.videoId
                         ELSE dl.intl.audioId}

(* ---- C36 ---- *)
\* C36: whatever options.maxConcurrent was requested (absent, 0, negative,
\* above 3), the maxConcurrent the queue works with is between 1 and 3, and
\* so the admission test of processQueue passes whenever jobs are pending
\* and nothing is active.
MaxConcurrentBetweenOneAndHardLimit ==
    /\ maxConcurrent \in 1..HardLimit
    /\ (Len(active) = 0 /\ Len(queue) > 0) => CanAdmit(St)

(***************************************************************************)
(* The scheduler together with the cool-down sleeps of processTask.        *)
(***************************************************************************)
\* lines 588-600: the finally block, up to the await of its cool-down sleep
TaskFinallyThenCooldown(t) ==
    /\ pc[t] \in AtHandOver
    /\ LET s == Finally(St, t)
       IN /\ QueueBecomes(s)
          /\ cooldowns' = IF Len(s.active) = 0 /\ Len(s.queue) > 0
                          THEN cooldowns + 1
                          ELSE cooldowns
    /\ UNCHANGED <<tokenVars, planVars>>

\* the timer of line 598 fires: the processTask invocation is over
CooldownEnds ==
    /\ Quiescent
    /\ cooldowns > 0
    /\ cooldowns' = cooldowns - 1
    /\ UNCHANGED <<queueVars, tokenVars, planVars>>

InitCooldown ==
    \E mc \in {0, 2} :
        StartsAs(Constructor([maxConcurrent |-> mc, retryAttempts |-> 1]))

NextCooldown ==
    \/ DoAddDownload
    \/ DoStart
    \/ DoStop
    \/ DoPause
    \/ DoResume
    \/ LoopWake
    \/ \E t \in Tasks : TaskSucceeds(t)
    \/ \E t \in Tasks, e \in Errors : TaskFails(t, e)
    \/ \E t \in Tasks : RateLimitSleepEnds(t)
    \/ \E t \in Tasks : TaskFinallyThenCooldown(t)
    \/ CooldownEnds
    \/ QueueCompletedDelivered

SpecCooldown == InitCooldown /\ [][NextCooldown]_vars

(* ---- C37 ---- *)
\* C37: no job is launched while a cool-down sleep, begun when a job left
\* active empty with jobs still pending, is not yet over.
NoLaunchDuringCooldown ==
    [][\A t \in Tasks : Launched(t) => cooldowns = 0]_vars

(* ---- C38 ---- *)
\* C38: in every getValidToken call the first wait of strategy 4 is the
\* base delay the TokenManager was constructed with, however many login
\* attempts failed in earlier calls on the same TokenManager.
BackoffStartsFromBaseDelay ==
    call.waits # <<>> => call.waits[1] = TokenManagerConstructor.retryDelay

(* ---- C39 ---- *)
\* the step belongs to a call's turn to the cache: the call reads a token
\* from the record, or the check of that token ends
CacheTurnStep ==
    /\ call' # call
    /\ call'.tried # <<>>
    /\ call'.tried[1].strategy = "cache"
    /\ call'.tried[1].token # "none"
    /\ \/ calls' = calls + 1
       \/ call.pc = "validate" /\ Len(call.tried) = 1

\* C39: a getValidToken call that reads its token from the cache leaves the
\* cache record as it is, whether the check passes or not, and reads it only
\* from a record written at most 24 hours before.
CacheServedLeavesRecordUntouched ==
    [][CacheTurnStep =>
            /\ cacheFile' = cacheFile
            /\ calls' = calls + 1 => now - cacheFile.timestamp <= Day]_vars

(* ---- C40 ---- *)
\* C40: in an invocation whose strategy 3 read a token from the manual
\* cookie file and saw it fail the check, no turn of strategy 4 gets that
\* token again: what strategy 4 checks comes from an automated login.
LoginNeverYieldsRejectedManualToken ==
    \A j \in 1..Len(call.tried) :
        (call.tried[j].strategy = "manual" /\ call.tried[j].token # "none") =>
            \A i \in (j + 1)..Len(call.tried) :
                call.tried[i].strategy = "login" =>
                    /\ ~call.tried[j].valid
                    /\ call.tried[i].token # call.tried[j].token

====
